---- MODULE Spec2Model ----
(***************************************************************************)
(* Model of server/user_state.go: the capability bitmask, the UserCookie   *)
(* identity record, the GetCookie accessor and cookieHandler.ServeHTTP,    *)
(* the middleware that decodes the session cookie and hands the record to  *)
(* its delegate through the request context.  Requests are served          *)
(* concurrently by one shared cookieHandler, one goroutine per request.    *)
(***************************************************************************)
EXTENDS Integers, Sequences, FiniteSets, TLC

\* Number of requests in flight against the one cookieHandler.
NumRequests == 2

Requests == 1..NumRequests

-----------------------------------------------------------------------------
(* Capability model *)

CapabilityAnonymous == 0

\* The shift count of a constant block that starts anew at this declaration.
CapabilityEditResourceRestarted == 2^0

CapabilityViewPublicResourceEntry == 2^0
CapabilityViewOwnVolunteerComment == 2^1
CapabilityViewOtherVolunteerComment == 2^2
CapabilityEditOwnVolunteerComment == 2^3
CapabilityEditOtherVolunteerComment == 2^4
CapabilityEditResource == 2^5
CapabilityViewUsers == 2^6
CapabilityInviteNewVolunteer == 2^7
CapabilityInviteNewAdmin == 2^8
CapabilityEditUsers == 2^9
CapabilityReauthenticate == 2^10

\* The eleven primitive capability bits, in declaration order.
CapabilityBits ==
    << CapabilityViewPublicResourceEntry, CapabilityViewOwnVolunteerComment,
       CapabilityViewOtherVolunteerComment, CapabilityEditOwnVolunteerComment,
       CapabilityEditOtherVolunteerComment, CapabilityEditResource,
       CapabilityViewUsers, CapabilityInviteNewVolunteer,
       CapabilityInviteNewAdmin, CapabilityEditUsers,
       CapabilityReauthenticate >>

BitIndex == 1..Len(CapabilityBits)

\* Go's & and | on the non-negative int64 values used as masks.
RECURSIVE BitAnd(_, _)
BitAnd(a, b) ==
    IF a = 0 \/ b = 0 THEN 0
    ELSE (a % 2) * (b % 2) + 2 * BitAnd(a \div 2, b \div 2)

RECURSIVE BitOr(_, _)
BitOr(a, b) ==
    IF a = 0 THEN b
    ELSE IF b = 0 THEN a
    ELSE (IF a % 2 = 1 \/ b % 2 = 1 THEN 1 ELSE 0) + 2 * BitOr(a \div 2, b \div 2)

\* The administrator union with view-users left out.
AdministratorMissingViewUsers ==
    BitOr(CapabilityInviteNewVolunteer,
    BitOr(CapabilityInviteNewAdmin,
    BitOr(CapabilityEditUsers, CapabilityViewPublicResourceEntry)))

CapabilityAdministrator ==
    BitOr(CapabilityViewUsers,
    BitOr(CapabilityInviteNewVolunteer,
    BitOr(CapabilityInviteNewAdmin,
    BitOr(CapabilityEditUsers, CapabilityViewPublicResourceEntry))))

CapabilityVolunteer ==
    BitOr(CapabilityViewPublicResourceEntry,
    BitOr(CapabilityViewOwnVolunteerComment,
    BitOr(CapabilityViewOtherVolunteerComment,
    BitOr(CapabilityEditOwnVolunteerComment,
    BitOr(CapabilityEditResource, CapabilityInviteNewVolunteer)))))

-----------------------------------------------------------------------------
(* Identity record *)

\* The nil uuid.UUID.
NilUuid == ""

\* A constructor that already mints an id for the record.
ZeroUserCookieWithUuid ==
    [Uuid |-> "minted", Capability |-> 0, Timestamp |-> 0, Displayname |-> ""]

\* new(UserCookie): every field at its zero value.
ZeroUserCookie ==
    [Uuid |-> NilUuid, Capability |-> 0, Timestamp |-> 0, Displayname |-> ""]

\* A test that takes the default capability for the sign of a login.
IsAuthedNeedsView(u) == BitAnd(u.Capability, CapabilityViewPublicResourceEntry) # 0

IsAuthed(u) == u.Capability # CapabilityAnonymous

DisplayName(u) == u.Displayname

\* A test that asks for every bit of cap instead of any of them.
HasCapabilityAllBits(u, cap) == BitAnd(u.Capability, cap) = cap

\* A comparison that lets the zero result through.
HasCapabilityAlways(u, cap) == BitAnd(u.Capability, cap) >= 0

HasCapability(u, cap) == BitAnd(u.Capability, cap) # 0

HasCapabilityEditResource(u) == HasCapability(u, CapabilityEditResource)

HasCapabilityViewUsers(u) == HasCapability(u, CapabilityViewUsers)

HasCapabilityIniviteUsers(u) ==
    HasCapability(u, BitOr(CapabilityInviteNewVolunteer, CapabilityInviteNewAdmin))

\* Everything a delegate can ask of the record GetCookie gave it.
Queries(u) ==
    [ has          |-> [i \in BitIndex |-> HasCapability(u, CapabilityBits[i])],
      editResource |-> HasCapabilityEditResource(u),
      viewUsers    |-> HasCapabilityViewUsers(u),
      inviteUsers  |-> HasCapabilityIniviteUsers(u),
      isAuthed     |-> IsAuthed(u),
      displayName  |-> DisplayName(u) ]

-----------------------------------------------------------------------------
(* Session tokens and the securecookie codec *)

SessionCookieName == "session"
UserCookieStateName == "usercookiestate"

\* The records the login flow issues session cookies for: the id is empty
\* exactly when the capability mask is Anonymous.
IssuedRecords ==
    { [Uuid |-> "u1", Capability |-> CapabilityAdministrator,
       Timestamp |-> 1, Displayname |-> "alice"],
      [Uuid |-> "u2", Capability |-> CapabilityVolunteer,
       Timestamp |-> 2, Displayname |-> "bob"],
      [Uuid |-> "u3",
       Capability |-> BitOr(CapabilityEditOtherVolunteerComment, CapabilityReauthenticate),
       Timestamp |-> 3, Displayname |-> "carol"],
      [Uuid |-> NilUuid, Capability |-> CapabilityAnonymous,
       Timestamp |-> 4, Displayname |-> "guest"] }

\* securecookie.Encode: the value is bound to the cookie name and carries a
\* MAC over the serialized payload.
Encode(name, rec) ==
    [binding |-> name, mac |-> "valid", parses |-> TRUE, payload |-> rec]

\* A value some byte of which was altered after encoding.
Tamper(tok) == [tok EXCEPT !.mac = "invalid"]

\* A validly signed value whose plaintext is no UserCookie.
EncodeForeign(name) ==
    [binding |-> name, mac |-> "valid", parses |-> FALSE, payload |-> ZeroUserCookie]

\* securecookie.Decode(name, value, dst): the error and dst afterwards.
\* The MAC and the name binding are verified before anything is written to dst.
Decode(name, tok, dst) ==
    IF tok.mac # "valid" \/ tok.binding # name \/ ~tok.parses
        THEN [err |-> TRUE, rec |-> dst]
        ELSE [err |-> FALSE, rec |-> tok.payload]

\* The cookie headers a request can carry.
Cookie(name, value) == [Name |-> name, Value |-> value]

AliceRecord == CHOOSE r \in IssuedRecords : r.Uuid = "u1"

BadTokens ==
    { Tamper(Encode(SessionCookieName, AliceRecord)),
      Encode("other", AliceRecord),
      EncodeForeign(SessionCookieName) }

Jars ==
    { <<>>, << Cookie("other", Encode("other", AliceRecord)) >> }
    \cup { << Cookie(SessionCookieName, Encode(SessionCookieName, rec)) >> :
            rec \in {r \in IssuedRecords : r.Uuid # "u2"} }
    \cup { << Cookie(SessionCookieName, tok) >> : tok \in BadTokens }
    \cup { << Cookie("other", Encode("other", AliceRecord)),
              Cookie(SessionCookieName, Encode(SessionCookieName, rec)) >> :
            rec \in {r \in IssuedRecords : r.Uuid = "u2"} }

NoCookie == Cookie("", EncodeForeign(""))

\* A lookup that takes the first cookie of the request whatever its name.
ReqCookieFirst(cookies, name) ==
    IF cookies = <<>> THEN [err |-> TRUE, cookie |-> NoCookie]
    ELSE [err |-> FALSE, cookie |-> Head(cookies)]

\* http.Request.Cookie(name): the first cookie of that name, or ErrNoCookie.
RECURSIVE ReqCookie(_, _)
ReqCookie(cookies, name) ==
    IF cookies = <<>> THEN [err |-> TRUE, cookie |-> NoCookie]
    ELSE IF Head(cookies).Name = name THEN [err |-> FALSE, cookie |-> Head(cookies)]
    ELSE ReqCookie(Tail(cookies), name)

-----------------------------------------------------------------------------
(* Request context *)

\* The request passed on with its context as it came.
ContextWithValueDropped(parent, key, ptr) == parent

\* context.WithValue: a new link in front of the parent chain.
ContextWithValue(parent, key, ptr) ==
    << [key |-> key, type |-> "*UserCookie", ptr |-> ptr] >> \o parent

\* Context.Value(key): the innermost binding of key, or the nil interface.
RECURSIVE ContextValue(_, _)
ContextValue(chain, key) ==
    IF chain = <<>> THEN [type |-> "nil", ptr |-> 0]
    ELSE IF Head(chain).key = key THEN [type |-> Head(chain).type, ptr |-> Head(chain).ptr]
    ELSE ContextValue(Tail(chain), key)

\* A lookup that tolerates a missing value (the comma-ok assertion).
GetCookieLenient(chain) ==
    [panic |-> FALSE, ptr |-> ContextValue(chain, UserCookieStateName).ptr]

\* GetCookie: the unchecked type assertion .(*UserCookie) panics unless the
\* value stored under UserCookieStateName is a *UserCookie.
GetCookie(chain) ==
    LET v == ContextValue(chain, UserCookieStateName)
    IN  IF v.type = "*UserCookie"
            THEN [panic |-> FALSE, ptr |-> v.ptr]
            ELSE [panic |-> TRUE, ptr |-> 0]

-----------------------------------------------------------------------------
(* Response writer *)

NewResponse == [status |-> "unset", body |-> <<>>]

\* respondWithError: an error status and a diagnostic body.
RespondWithError(w, msg) ==
    [status |-> IF w.status = "unset" THEN "error" ELSE w.status,
     body   |-> Append(w.body, msg)]

\* A delegate rendering its page: the status line is only written once.
WritePage(w) ==
    [status |-> IF w.status = "unset" THEN "ok" ELSE w.status,
     body   |-> Append(w.body, "page")]

-----------------------------------------------------------------------------
(* State *)

VARIABLES
    jar,            \* jar[r]: the Cookie headers of request r
    pc,             \* pc[r]: where the goroutine serving r stands
    via,            \* via[r]: how the delegate was reached for r
    err,            \* err[r]: the local err of ServeHTTP
    usercookie,     \* usercookie[r]: the local *UserCookie of ServeHTTP (0 = nil)
    heap,           \* heap[a]: the UserCookie allocated at address a
    nextAddr,       \* the next address new() hands out
    ctx,            \* ctx[r]: the context chain of the request given to the delegate
    response,       \* response[r]: what has been written to the ResponseWriter
    delegateCalls,  \* delegateCalls[r]: invocations of delegate.ServeHTTP for r
    got,            \* got[r]: what GetCookie did inside the delegate
    seen,           \* seen[r]: the record the delegate read through GetCookie
    answers,        \* answers[r]: the delegate's capability queries on that record
    revokelist,     \* revokelist[h]: cookieHandler.revokelist of instance h
    files,          \* files[p]: the key file at path p under statepath
    last,           \* last[p]: the latest makeCookieCryptoKey call for p
    established,    \* established[p]: the key of the first call for p that succeeded
    tooling,        \* what the latest makeCookieTooling returned
    calls           \* number of makeCookieTooling calls (process starts) so far

\* The state of the key bootstrap, which the request handlers never touch.
keyVars == << files, last, established, tooling, calls >>

\* The state of the request handlers.
reqVars ==
    << jar, pc, via, err, usercookie, heap, nextAddr, ctx, response,
       delegateCalls, got, seen, answers, revokelist >>

vars ==
    << jar, pc, via, err, usercookie, heap, nextAddr, ctx, response,
       delegateCalls, got, seen, answers, revokelist,
       files, last, established, tooling, calls >>

-----------------------------------------------------------------------------
(* Key files: makeCookieCryptoKey and makeCookieTooling *)

\* securecookie.GenerateRandomKey(32)
KeyLen == 32

\* Number of process starts (makeCookieTooling calls) followed.
MaxStarts == 3

KeyFiles == {"hashkey.dat", "blockkey.dat"}

\* Keys the random source can produce, and a key written by an earlier run.
RandomKeys == {"k1", "k2"}
OldKey == "k0"

NoFile == [exists |-> FALSE, key |-> "none", len |-> 0]

\* A file holding the first n bytes of key k.
FileOf(k, n) == [exists |-> TRUE, key |-> IF n = 0 THEN "none" ELSE k, len |-> n]

\* What the operating system and the random source do during one call:
\* whether ioutil.ReadFile of an existing file succeeds, the key
\* GenerateRandomKey returns ("nil" when it fails), whether os.Create succeeds,
\* and how many bytes cookiefile.Write writes (an error when fewer than all).
Envs ==
    [read : {"ok", "fail"}, rand : RandomKeys \cup {"nil"},
     create : {"ok", "fail"}, written : {0, KeyLen \div 2, KeyLen}]

NotCalled ==
    [called |-> FALSE, before |-> NoFile, unreadable |-> FALSE, generated |-> FALSE,
     persistFailed |-> FALSE, err |-> FALSE, key |-> "none", len |-> 0]

\* makeCookieCryptoKey(statepath, cookiename) on the file f in environment e:
\* the file afterwards and what the call did and returned.
makeCookieCryptoKey(f, e) ==
    LET readErr == ~f.exists \/ e.read = "fail"
        call == [NotCalled EXCEPT !.called = TRUE, !.before = f,
                                  !.unreadable = f.exists /\ e.read = "fail"]
    IN  IF ~readErr
            \* key, err := ioutil.ReadFile(path) succeeded: return key, nil
            THEN [file |-> f, ret |-> [call EXCEPT !.key = f.key, !.len = f.len]]
        ELSE IF e.rand = "nil"
            \* key == nil: "No cookie for ... and can't make one"
            THEN [file |-> f, ret |-> [call EXCEPT !.err = TRUE]]
        ELSE IF e.create = "fail"
            \* os.Create failed: "Can't create a ... to hold new cookie"
            THEN [file |-> f,
                  ret |-> [call EXCEPT !.generated = TRUE, !.persistFailed = TRUE,
                                       !.err = TRUE]]
        ELSE IF e.written # KeyLen
            \* os.Create truncated the file; Write fell short: "Can't write new cookie"
            THEN [file |-> FileOf(e.rand, e.written),
                  ret |-> [call EXCEPT !.generated = TRUE, !.persistFailed = TRUE,
                                       !.err = TRUE]]
        ELSE [file |-> FileOf(e.rand, KeyLen),
              ret |-> [call EXCEPT !.generated = TRUE, !.key = e.rand, !.len = KeyLen]]

NotEstablished == [set |-> FALSE, key |-> "none", len |-> 0]

\* The first key a call for the path returned without error.
Establish(est, ret) ==
    IF est.set \/ ret.err THEN est
    ELSE [set |-> TRUE, key |-> ret.key, len |-> ret.len]

\* The key bootstrap has not run in this model of the request handlers.
KeysIdle ==
    /\ files = [p \in KeyFiles |-> FileOf(OldKey, KeyLen)]
    /\ last = [p \in KeyFiles |-> NotCalled]
    /\ established = [p \in KeyFiles |-> NotEstablished]
    /\ tooling = "none"
    /\ calls = 0

Addresses == 1..NumRequests

\* Number of cookieHandler instances makeCookieHandler has built.
NumHandlers == 2

Handlers == 1..NumHandlers

\* The instance whose ServeHTTP serves the requests.
HandlerOf(r) == 1

\* A revocation list kept in one package-level slice.
MakeRevokeListShared(h) == [array |-> 1, items |-> <<>>, cap |-> 10]

\* makeCookieHandler: make([]uuid.UUID, 0, 10), a new empty backing array for
\* the instance being built.
MakeRevokeList(h) == [array |-> h, items |-> <<>>, cap |-> 10]

Init ==
    /\ jar \in [Requests -> Jars]
    /\ pc = [r \in Requests |-> "idle"]
    /\ via = [r \in Requests |-> "none"]
    /\ err = [r \in Requests |-> FALSE]
    /\ usercookie = [r \in Requests |-> 0]
    /\ heap = [a \in Addresses |-> ZeroUserCookie]
    /\ nextAddr = 1
    /\ ctx = [r \in Requests |-> <<>>]
    /\ response = [r \in Requests |-> NewResponse]
    /\ delegateCalls = [r \in Requests |-> 0]
    /\ got = [r \in Requests |-> [panic |-> FALSE, ptr |-> 0]]
    /\ seen = [r \in Requests |-> ZeroUserCookie]
    /\ answers = [r \in Requests |-> Queries(ZeroUserCookie)]
    /\ revokelist = [h \in Handlers |-> MakeRevokeList(h)]
    /\ KeysIdle

-----------------------------------------------------------------------------
(* cookieHandler.ServeHTTP, one step per statement that another goroutine
   can interleave with *)

\* An allocator that hands every request the same record.
NewUserCookieShared(free) == 1

\* new(UserCookie): a fresh allocation on every call, at the next free address.
NewUserCookie(free) == free

\* cookie, err := req.Cookie(SessionCookieName); usercookie := new(UserCookie)
ServeHTTPEnter(r) ==
    /\ pc[r] = "idle"
    /\ nextAddr \in Addresses
    /\ LET a == NewUserCookie(nextAddr)
       IN  /\ usercookie' = [usercookie EXCEPT ![r] = a]
           /\ heap' = [heap EXCEPT ![a] = ZeroUserCookie]
    /\ nextAddr' = nextAddr + 1
    /\ err' = [err EXCEPT ![r] = ReqCookie(jar[r], SessionCookieName).err]
    /\ via' = [via EXCEPT ![r] = "cookieHandler"]
    /\ pc' = [pc EXCEPT ![r] = "entered"]
    /\ UNCHANGED << jar, ctx, response, delegateCalls, got, seen, answers, revokelist >>
    /\ UNCHANGED keyVars

\* The request has a cookie: err = cf.cookiecodec.Decode(SessionCookieName,
\* cookie.Value, usercookie)
ServeHTTPDecode(r) ==
    /\ pc[r] = "entered"
    /\ ~err[r]
    /\ LET cookie == ReqCookie(jar[r], SessionCookieName).cookie
           d == Decode(SessionCookieName, cookie.Value, heap[usercookie[r]])
       IN  /\ heap' = [heap EXCEPT ![usercookie[r]] = d.rec]
           /\ err' = [err EXCEPT ![r] = d.err]
           /\ pc' = [pc EXCEPT ![r] = IF d.err THEN "undecodable" ELSE "resolved"]
    /\ UNCHANGED << jar, via, usercookie, nextAddr, ctx, response, delegateCalls,
                    got, seen, answers, revokelist >>
    /\ UNCHANGED keyVars

\* A default that grants the public-entry capability to anonymous users.
AnonymousDefaultPublic(u) == [u EXCEPT !.Capability = CapabilityViewPublicResourceEntry]

\* usercookie.Capability = CapabilityAnonymous
AnonymousDefault(u) == [u EXCEPT !.Capability = CapabilityAnonymous]

\* The request has no session cookie: anonymous access.
ServeHTTPAnonymous(r) ==
    /\ pc[r] = "entered"
    /\ err[r]
    /\ heap' = [heap EXCEPT ![usercookie[r]] = AnonymousDefault(@)]
    /\ pc' = [pc EXCEPT ![r] = "resolved"]
    /\ UNCHANGED << jar, via, err, usercookie, nextAddr, ctx, response,
                    delegateCalls, got, seen, answers, revokelist >>
    /\ UNCHANGED keyVars

\* The cookie was not decodable: respondWithError(w, "Malformed session cookie"),
\* after which control leaves the if statement and reaches the delegate call.
ServeHTTPRespondWithError(r) ==
    /\ pc[r] = "undecodable"
    /\ response' = [response EXCEPT ![r] = RespondWithError(@, "Malformed session cookie")]
    /\ pc' = [pc EXCEPT ![r] = "resolved"]
    /\ UNCHANGED << jar, via, err, usercookie, heap, nextAddr, ctx, delegateCalls,
                    got, seen, answers, revokelist >>
    /\ UNCHANGED keyVars

\* cf.delegate.ServeHTTP(w, req.WithContext(context.WithValue(req.Context(),
\* UserCookieStateName, usercookie)))
ServeHTTPDelegate(r) ==
    /\ pc[r] = "resolved"
    /\ ctx' = [ctx EXCEPT ![r] = ContextWithValue(@, UserCookieStateName, usercookie[r])]
    /\ delegateCalls' = [delegateCalls EXCEPT ![r] = @ + 1]
    /\ pc' = [pc EXCEPT ![r] = "delegate"]
    /\ UNCHANGED << jar, via, err, usercookie, heap, nextAddr, response,
                    got, seen, answers, revokelist >>
    /\ UNCHANGED keyVars

\* A handler mounted without makeCookieHandler around it: it receives the
\* request with the context the server gave it.
ServeHTTPBare(r) ==
    /\ pc[r] = "idle"
    /\ via' = [via EXCEPT ![r] = "bare"]
    /\ delegateCalls' = [delegateCalls EXCEPT ![r] = @ + 1]
    /\ pc' = [pc EXCEPT ![r] = "delegate"]
    /\ UNCHANGED << jar, err, usercookie, heap, nextAddr, ctx, response,
                    got, seen, answers, revokelist >>
    /\ UNCHANGED keyVars

\* The delegate: it calls GetCookie, queries the record and renders its page.
\* A panic in GetCookie ends the handler before anything is written.
DelegateServeHTTP(r) ==
    /\ pc[r] = "delegate"
    /\ LET g == GetCookie(ctx[r])
       IN  /\ got' = [got EXCEPT ![r] = g]
           /\ IF g.panic \/ g.ptr = 0
                THEN UNCHANGED << seen, answers, response >>
                ELSE /\ seen' = [seen EXCEPT ![r] = heap[g.ptr]]
                     /\ answers' = [answers EXCEPT ![r] = Queries(heap[g.ptr])]
                     /\ response' = [response EXCEPT ![r] = WritePage(@)]
    /\ pc' = [pc EXCEPT ![r] = "done"]
    /\ UNCHANGED << jar, via, err, usercookie, heap, nextAddr, ctx,
                    delegateCalls, revokelist >>
    /\ UNCHANGED keyVars

Next ==
    \E r \in Requests :
        \/ ServeHTTPEnter(r)
        \/ ServeHTTPDecode(r)
        \/ ServeHTTPAnonymous(r)
        \/ ServeHTTPRespondWithError(r)
        \/ ServeHTTPDelegate(r)
        \/ ServeHTTPBare(r)
        \/ DelegateServeHTTP(r)

Spec == Init /\ [][Next]_vars

-----------------------------------------------------------------------------
(* Vocabulary of the properties *)

\* Request r went through cookieHandler.ServeHTTP.
Wrapped(r) == via[r] = "cookieHandler"

SessionIndexes(r) == {i \in DOMAIN jar[r] : jar[r][i].Name = "session"}

HasSessionCookie(r) == SessionIndexes(r) # {}

\* The value of the session cookie of r (the first one the request carries).
SessionValue(r) ==
    jar[r][CHOOSE i \in SessionIndexes(r) : \A j \in SessionIndexes(r) : i <= j].Value

\* The session cookie of r is present and its value decodes.
Decodable(r) ==
    /\ HasSessionCookie(r)
    /\ SessionValue(r).mac = "valid"
    /\ SessionValue(r).binding = "session"
    /\ SessionValue(r).parses

\* The session cookie of r is present and its value fails to decode.
Undecodable(r) == HasSessionCookie(r) /\ ~Decodable(r)

TypeOK ==
    /\ jar \in [Requests -> Jars]
    /\ pc \in [Requests -> {"idle", "entered", "undecodable", "resolved", "delegate", "done"}]
    /\ via \in [Requests -> {"none", "cookieHandler", "bare"}]
    /\ err \in [Requests -> BOOLEAN]
    /\ usercookie \in [Requests -> {0} \cup Addresses]
    /\ nextAddr \in 1..(NumRequests + 1)
    /\ delegateCalls \in [Requests -> 0..1]
    /\ \A h \in Handlers : revokelist[h].items = <<>>

\* The record attached to the context of request r (the delegate's view of it).
Attached(r) == heap[ContextValue(ctx[r], "usercookiestate").ptr]

\* The delegate has been invoked for r / has returned for r.
Forwarded(r) == pc[r] \in {"delegate", "done"}

ErrorWritten(r) ==
    \/ response[r].status = "error"
    \/ \E i \in DOMAIN response[r].body : response[r].body[i] = "Malformed session cookie"

-----------------------------------------------------------------------------
(* Properties of the middleware *)

\* C1: a request whose session cookie is present but fails to decode (bad
\* signature, corrupted value, wrong name binding) never has the delegate
\* handler invoked for it by cookieHandler.ServeHTTP.
C1_UndecodableNeverForwarded ==
    \A r \in Requests :
        (Wrapped(r) /\ Undecodable(r)) => delegateCalls[r] = 0

\* C2: for a request with no session cookie the middleware attaches a fresh
\* record with capabilities Anonymous (0) and an empty id, invokes the delegate
\* exactly once with that record, and writes no error response.
C2_NoCookieAnonymousForwarded ==
    \A r \in Requests :
        (Wrapped(r) /\ ~HasSessionCookie(r)) =>
            /\ delegateCalls[r] <= 1
            /\ ~ErrorWritten(r)
            /\ Forwarded(r) =>
                /\ delegateCalls[r] = 1
                /\ ~GetCookie(ctx[r]).panic
                /\ Attached(r).Capability = 0
                /\ Attached(r).Uuid = ""
                /\ \A q \in Requests \ {r} :
                        usercookie[q] # GetCookie(ctx[r]).ptr
            /\ pc[r] = "done" =>
                /\ seen[r].Capability = 0
                /\ seen[r].Uuid = ""

C2_Witness ==
    \E r \in Requests :
        /\ Wrapped(r) /\ ~HasSessionCookie(r) /\ jar[r] # <<>>
        /\ pc[r] = "done" /\ delegateCalls[r] = 1

\* C3: for a request whose session cookie decodes (its id not revoked) the
\* delegate is invoked exactly once, the record it reads equals the record
\* encoded in the cookie in all four fields, and the middleware writes no error.
C3_DecodedRecordForwarded ==
    \A r \in Requests :
        ( /\ Wrapped(r) /\ Decodable(r)
          /\ \A i \in DOMAIN revokelist[HandlerOf(r)].items :
                revokelist[HandlerOf(r)].items[i] # SessionValue(r).payload.Uuid ) =>
            /\ delegateCalls[r] <= 1
            /\ ~ErrorWritten(r)
            /\ Forwarded(r) =>
                /\ delegateCalls[r] = 1
                /\ Attached(r) = SessionValue(r).payload
            /\ pc[r] = "done" =>
                /\ ~got[r].panic
                /\ seen[r].Uuid = SessionValue(r).payload.Uuid
                /\ seen[r].Capability = SessionValue(r).payload.Capability
                /\ seen[r].Timestamp = SessionValue(r).payload.Timestamp
                /\ seen[r].Displayname = SessionValue(r).payload.Displayname
                /\ response[r] = [status |-> "ok", body |-> << "page" >>]

C3_Witness ==
    \E r \in Requests :
        /\ Wrapped(r) /\ Decodable(r) /\ Len(jar[r]) = 2
        /\ pc[r] = "done"
        /\ seen[r].Uuid = "u2" /\ seen[r].Displayname = "bob"

\* C4: whenever cookieHandler.ServeHTTP has invoked the delegate, the request
\* context holds the resolved record under the single key UserCookieStateName,
\* so GetCookie inside the delegate returns a non-nil record and does not panic.
C4_RecordInContextBeforeDelegate ==
    \A r \in Requests :
        Wrapped(r) =>
            /\ delegateCalls[r] > 0 =>
                /\ Len(ctx[r]) = 1
                /\ ctx[r][1].key = "usercookiestate"
                /\ ctx[r][1].type = "*UserCookie"
                /\ ctx[r][1].ptr # 0
                /\ ctx[r][1].ptr = usercookie[r]
            /\ pc[r] = "done" => (~got[r].panic /\ got[r].ptr # 0)

C4_Witness ==
    \E r \in Requests :
        /\ Wrapped(r) /\ pc[r] = "done"
        /\ ~got[r].panic /\ got[r].ptr = usercookie[r] /\ got[r].ptr # 0

\* The record resolved for request r from its own cookie alone.
Expected(r) ==
    IF Decodable(r) THEN SessionValue(r).payload
    ELSE [Uuid |-> "", Capability |-> 0, Timestamp |-> 0, Displayname |-> ""]

\* C5: with requests served concurrently by one cookieHandler, under every
\* interleaving each delegate invocation observes the record resolved from its
\* own request (its decoded cookie or the anonymous default), never a record or
\* a field of a record of another request.
C5_NoCrossContamination ==
    \A r \in Requests :
        Wrapped(r) =>
            /\ Forwarded(r) =>
                /\ Attached(r) = Expected(r)
                /\ \A q \in Requests \ {r} :
                        usercookie[q] # ContextValue(ctx[r], "usercookiestate").ptr
            /\ pc[r] = "done" => seen[r] = Expected(r)

\* Two requests with different records, both inside their delegate at once.
C5_Witness ==
    \E r, q \in Requests :
        /\ r # q /\ Wrapped(r) /\ Wrapped(q)
        /\ pc[r] = "delegate" /\ pc[q] = "delegate"
        /\ Expected(r) # Expected(q)
        /\ Attached(r) = Expected(r) /\ Attached(q) = Expected(q)

C7_UndecodableGetsOnlyError ==
    \A r \in Requests :
        (Wrapped(r) /\ Undecodable(r) /\ pc[r] = "done") =>
            response[r] = [status |-> "error", body |-> << "Malformed session cookie" >>]

\* C8: GetCookie on a request that did not pass through cookieHandler.ServeHTTP
\* (nothing stored under UserCookieStateName) panics; it returns no record,
\* nil or otherwise.
C8_GetCookieWithoutMiddlewarePanics ==
    \A r \in Requests :
        (via[r] = "bare" /\ pc[r] = "done") =>
            /\ ContextValue(ctx[r], "usercookiestate").type = "nil"
            /\ got[r].panic
            /\ got[r].ptr = 0
            /\ response[r].body = <<>>

C8_Witness ==
    \E r \in Requests : via[r] = "bare" /\ pc[r] = "done" /\ got[r].panic

\* The delegate of r read a record and queried it.
Queried(r) == pc[r] = "done" /\ ~got[r].panic

\* C9: on a record whose capability mask is Anonymous, HasCapability is false
\* for each of the eleven capability bits, and so are the edit-resource,
\* view-users and invite-users queries.
C9_AnonymousHasNoCapability ==
    \A r \in Requests :
        (Queried(r) /\ seen[r].Capability = 0) =>
            /\ \A i \in 1..11 : ~answers[r].has[i]
            /\ ~answers[r].editResource
            /\ ~answers[r].viewUsers
            /\ ~answers[r].inviteUsers

\* An anonymous record from a request without cookie and one decoded from a
\* cookie, both queried.
C9_Witness ==
    \E r, q \in Requests :
        /\ Queried(r) /\ ~HasSessionCookie(r) /\ seen[r].Capability = 0
        /\ Queried(q) /\ Decodable(q) /\ seen[q].Capability = 0

\* Positions, in declaration order, of the bits each role is documented to hold.
AdministratorPositions == {7, 8, 9, 10, 1}
VolunteerPositions == {1, 2, 3, 4, 6, 8}

\* C10: on an Administrator mask HasCapability(b) is true exactly for view-users,
\* invite-volunteer, invite-admin, edit-users and view-public-entry (ViewUsers
\* true, EditResource false); on a Volunteer mask exactly for view-public-entry,
\* view-own-comment, view-other-comment, edit-own-comment, edit-resource and
\* invite-volunteer (EditResource true, edit-users false).
C10_RolesGrantListedBits ==
    \A r \in Requests :
        Queried(r) =>
            /\ seen[r].Capability = CapabilityAdministrator =>
                /\ \A i \in 1..11 : answers[r].has[i] <=> (i \in AdministratorPositions)
                /\ answers[r].viewUsers
                /\ ~answers[r].editResource
            /\ seen[r].Capability = CapabilityVolunteer =>
                /\ \A i \in 1..11 : answers[r].has[i] <=> (i \in VolunteerPositions)
                /\ answers[r].editResource
                /\ ~answers[r].has[10]

C10_Witness ==
    \E r, q \in Requests :
        /\ Queried(r) /\ seen[r].Capability = CapabilityAdministrator
        /\ Queried(q) /\ seen[q].Capability = CapabilityVolunteer
        /\ answers[r].viewUsers /\ answers[q].editResource

-----------------------------------------------------------------------------
(* One request carrying any capability mask *)

\* Width of the masks the session cookies carry.
MaskWidth == 11

Masks == 0..(2^MaskWidth - 1)

\* The record the login flow issues for mask m.
MaskRecord(m) ==
    [Uuid |-> IF m = 0 THEN NilUuid ELSE "u1", Capability |-> m,
     Timestamp |-> 1, Displayname |-> "alice"]

CapJars ==
    { <<>>, << Cookie(SessionCookieName, Tamper(Encode(SessionCookieName, AliceRecord))) >> }
    \cup { << Cookie(SessionCookieName, Encode(SessionCookieName, MaskRecord(m))) >> :
            m \in Masks }

\* The request that is served; the others never arrive.
CapRequests == {r \in Requests : r <= 1}

CapInit ==
    /\ jar \in {[r \in Requests |-> IF r \in CapRequests THEN j ELSE <<>>] : j \in CapJars}
    /\ pc = [r \in Requests |-> "idle"]
    /\ via = [r \in Requests |-> "none"]
    /\ err = [r \in Requests |-> FALSE]
    /\ usercookie = [r \in Requests |-> 0]
    /\ heap = [a \in Addresses |-> ZeroUserCookie]
    /\ nextAddr = 1
    /\ ctx = [r \in Requests |-> <<>>]
    /\ response = [r \in Requests |-> NewResponse]
    /\ delegateCalls = [r \in Requests |-> 0]
    /\ got = [r \in Requests |-> [panic |-> FALSE, ptr |-> 0]]
    /\ seen = [r \in Requests |-> ZeroUserCookie]
    /\ answers = [r \in Requests |-> Queries(ZeroUserCookie)]
    /\ revokelist = [h \in Handlers |-> MakeRevokeList(h)]
    /\ KeysIdle

CapNext ==
    \E r \in CapRequests :
        \/ ServeHTTPEnter(r)
        \/ ServeHTTPDecode(r)
        \/ ServeHTTPAnonymous(r)
        \/ ServeHTTPRespondWithError(r)
        \/ ServeHTTPDelegate(r)
        \/ ServeHTTPBare(r)
        \/ DelegateServeHTTP(r)

SpecCap == CapInit /\ [][CapNext]_vars

\* Bit k of the non-negative integer n, by arithmetic.
Bit(n, k) == (n \div 2^k) % 2

\* C11: the eleven primitive capability constants are the powers of two 1<<0 ..
\* 1<<10 in declaration order: none is 0 (Anonymous), they are pairwise distinct
\* and no two share a bit; a record holding exactly the i-th power of two
\* answers true to the i-th constant and to no other.
C11_BitsDistinctPowersOfTwo ==
    /\ Len(CapabilityBits) = 11
    /\ \A i \in 1..11 :
        /\ CapabilityBits[i] = 2^(i - 1)
        /\ CapabilityBits[i] # 0
        /\ \A j \in 1..11 :
            i # j =>
                /\ CapabilityBits[i] # CapabilityBits[j]
                /\ \A k \in 0..30 :
                    ~(Bit(CapabilityBits[i], k) = 1 /\ Bit(CapabilityBits[j], k) = 1)
    /\ \A r \in Requests :
        Queried(r) =>
            \A i \in 1..11 :
                seen[r].Capability = 2^(i - 1) =>
                    \A j \in 1..11 : answers[r].has[j] <=> (j = i)

C11_Witness ==
    \E r \in Requests :
        /\ Queried(r) /\ seen[r].Capability = 1024
        /\ answers[r].has[11] /\ ~answers[r].has[10]

\* C12: for every mask m the invite-users query is true iff m contains
\* invite-volunteer or invite-admin (one of them is enough), and HasCapability
\* of an argument is true iff the mask and the argument have a bit in common.
C12_InviteIsEitherBit ==
    \A r \in Requests :
        Queried(r) =>
            LET m == seen[r].Capability
            IN  /\ answers[r].inviteUsers <=> (Bit(m, 7) = 1 \/ Bit(m, 8) = 1)
                /\ \A i \in 1..11 : answers[r].has[i] <=> (Bit(m, i - 1) = 1)
                /\ \A arg \in {0, 3, 48, 384, 961, 1024, 2047} :
                    HasCapability(seen[r], arg) <=>
                        \E k \in 0..30 : Bit(m, k) = 1 /\ Bit(arg, k) = 1

\* A record that holds invite-admin without invite-volunteer.
C12_Witness ==
    \E r \in Requests :
        /\ Queried(r) /\ seen[r].Capability = 256 + 1
        /\ answers[r].inviteUsers /\ ~answers[r].has[8]

\* C18: IsAuthed is true iff the capability mask differs from Anonymous (0): the
\* record attached for a request without session cookie is never reported as
\* authenticated, and a record holding at least one defined bit always is.
C18_IsAuthedIffNotAnonymous ==
    \A r \in Requests :
        Queried(r) =>
            /\ answers[r].isAuthed <=> (seen[r].Capability # 0)
            /\ (Wrapped(r) /\ ~HasSessionCookie(r)) => ~answers[r].isAuthed
            /\ (\E k \in 0..10 : Bit(seen[r].Capability, k) = 1) => answers[r].isAuthed

\* A record whose only capability is edit-other-comment, reported as authenticated.
C18_Witness ==
    \E r \in Requests :
        /\ Queried(r) /\ Decodable(r) /\ seen[r].Capability = 16
        /\ answers[r].isAuthed

-----------------------------------------------------------------------------
(* Failed decodes and the revocation list *)

\* C16: when decoding the session cookie fails, the record the middleware holds
\* afterwards is still the freshly constructed default (capabilities Anonymous,
\* empty id, empty display name): no later step, the delegate included, sees a
\* partially populated or privileged record.
C16_FailedDecodeLeavesDefault ==
    \A r \in Requests :
        ( /\ Wrapped(r) /\ Undecodable(r)
          /\ pc[r] \in {"undecodable", "resolved", "delegate", "done"} ) =>
            /\ heap[usercookie[r]] =
                [Uuid |-> "", Capability |-> 0, Timestamp |-> 0, Displayname |-> ""]
            /\ pc[r] = "done" =>
                /\ seen[r].Uuid = "" /\ seen[r].Capability = 0 /\ seen[r].Displayname = ""
                /\ ~answers[r].isAuthed
                /\ \A i \in 1..11 : ~answers[r].has[i]

\* A failed decode next to a request whose decode filled in a privileged record.
C16_Witness ==
    \E r, q \in Requests :
        /\ Wrapped(r) /\ Undecodable(r) /\ pc[r] = "done" /\ err[r]
        /\ Wrapped(q) /\ Decodable(q) /\ pc[q] = "done"
        /\ seen[q].Capability = CapabilityAdministrator
        /\ seen[r].Capability = 0

\* C17: the revocation list of a cookieHandler is empty when makeCookieHandler
\* builds it, has a backing array of its own, and no ServeHTTP call changes it:
\* after any sequence of requests it is still empty.
C17_RevokeListEmptyAndUntouched ==
    /\ [](\A h \in Handlers :
            /\ revokelist[h].items = <<>>
            /\ \A g \in Handlers \ {h} : revokelist[g].array # revokelist[h].array)
    /\ [][revokelist' = revokelist]_vars

\* Requests with a decodable and an undecodable cookie, both served.
C17_Witness ==
    \E r, q \in Requests :
        /\ Wrapped(r) /\ Undecodable(r) /\ pc[r] = "done"
        /\ Wrapped(q) /\ Decodable(q) /\ pc[q] = "done"
        /\ Len(revokelist[HandlerOf(r)].items) = 0
        /\ Len(revokelist[HandlerOf(q)].items) = 0

-----------------------------------------------------------------------------
(* Process starts: the key bootstrap *)

HashKeyFile == "hashkey.dat"
BlockKeyFile == "blockkey.dat"

\* makeCookieTooling(statepath): the hash key, then the block key; the first
\* error is returned and the other key is not looked at.
MakeCookieTooling ==
    /\ calls < MaxStarts
    /\ \E e1, e2 \in Envs :
        LET h == makeCookieCryptoKey(files[HashKeyFile], e1)
            b == makeCookieCryptoKey(files[BlockKeyFile], e2)
        IN  IF h.ret.err
                THEN /\ files' = [files EXCEPT ![HashKeyFile] = h.file]
                     /\ last' = [last EXCEPT ![HashKeyFile] = h.ret]
                     /\ established' = established
                     /\ tooling' = "error"
                ELSE /\ files' = [files EXCEPT ![HashKeyFile] = h.file,
                                               ![BlockKeyFile] = b.file]
                     /\ last' = [last EXCEPT ![HashKeyFile] = h.ret,
                                             ![BlockKeyFile] = b.ret]
                     /\ established' =
                            [established EXCEPT
                                ![HashKeyFile] = Establish(@, h.ret),
                                ![BlockKeyFile] = Establish(@, b.ret)]
                     /\ tooling' = IF b.ret.err THEN "error" ELSE "ok"
    /\ calls' = calls + 1
    /\ UNCHANGED reqVars

\* Before the first start each key file is absent or holds the key an earlier
\* run persisted; no request is served while the keys are loaded.
KeyInit ==
    /\ files \in [KeyFiles -> {NoFile, FileOf(OldKey, KeyLen)}]
    /\ last = [p \in KeyFiles |-> NotCalled]
    /\ established = [p \in KeyFiles |-> NotEstablished]
    /\ tooling = "none"
    /\ calls = 0
    /\ jar = [r \in Requests |-> <<>>]
    /\ pc = [r \in Requests |-> "idle"]
    /\ via = [r \in Requests |-> "none"]
    /\ err = [r \in Requests |-> FALSE]
    /\ usercookie = [r \in Requests |-> 0]
    /\ heap = [a \in Addresses |-> ZeroUserCookie]
    /\ nextAddr = 1
    /\ ctx = [r \in Requests |-> <<>>]
    /\ response = [r \in Requests |-> NewResponse]
    /\ delegateCalls = [r \in Requests |-> 0]
    /\ got = [r \in Requests |-> [panic |-> FALSE, ptr |-> 0]]
    /\ seen = [r \in Requests |-> ZeroUserCookie]
    /\ answers = [r \in Requests |-> Queries(ZeroUserCookie)]
    /\ revokelist = [h \in Handlers |-> MakeRevokeList(h)]

KeyNext == MakeCookieTooling

SpecKeys == KeyInit /\ [][KeyNext]_vars

KeyTypeOK ==
    /\ \A p \in KeyFiles :
        /\ files[p].exists \in BOOLEAN
        /\ files[p].len \in 0..KeyLen
        /\ last[p].called \in BOOLEAN
        /\ last[p].unreadable => last[p].before.exists
        /\ last[p].persistFailed => last[p].generated
        /\ last[p].err => last[p].key = "none"
    /\ tooling \in {"none", "ok", "error"}
    /\ calls \in 0..MaxStarts
    /\ tooling = "ok" => \A p \in KeyFiles : last[p].called /\ ~last[p].err

\* C13: key loading is stable across restarts: a call that finds no key file
\* generates a 32-byte key and persists it before returning it, and once a call
\* for a path has succeeded every later call for that path returns the same key
\* bytes and leaves the file unchanged; no key is generated while a valid key
\* file exists.  (A later call that ends in an error is not held against this.)
C13_KeyStableAcrossRestarts ==
    \A p \in KeyFiles :
        /\ (last[p].called /\ ~last[p].before.exists /\ ~last[p].err) =>
            /\ last[p].generated
            /\ last[p].len = 32
            /\ files[p] = [exists |-> TRUE, key |-> last[p].key, len |-> 32]
        /\ established[p].set =>
            /\ files[p] =
                [exists |-> TRUE, key |-> established[p].key, len |-> established[p].len]
            /\ (last[p].called /\ ~last[p].err) =>
                (last[p].key = established[p].key /\ last[p].len = established[p].len)
        /\ last[p].generated => ~(last[p].before.exists /\ last[p].before.len = 32)

\* C14: when a key file exists but cannot be read, makeCookieCryptoKey, and
\* with it makeCookieTooling, returns an error; it generates no replacement key
\* and neither overwrites nor truncates the file.  A failure to create or to
\* write a new key file likewise yields an error and no key.
C14_UnreadableKeyFileIsFatal ==
    \A p \in KeyFiles :
        /\ last[p].unreadable =>
            /\ last[p].err
            /\ tooling = "error"
            /\ ~last[p].generated
            /\ files[p] = last[p].before
        /\ last[p].persistFailed =>
            /\ last[p].err
            /\ last[p].key = "none"
            /\ tooling = "error"

\* C15: after any sequence of key-loading attempts, attempts that failed while
\* creating or writing the file included, a key file that exists holds exactly
\* the 32 key bytes, and every key returned without error is 32 bytes long.
C15_KeyFilesHoldWholeKeys ==
    \A p \in KeyFiles :
        /\ files[p].exists => files[p].len = 32
        /\ (last[p].called /\ ~last[p].err) => last[p].len = 32

\* What does hold of a failed create or write: an error and no key.
PersistFailureIsFatal ==
    \A p \in KeyFiles :
        last[p].persistFailed => (last[p].err /\ last[p].key = "none" /\ tooling = "error")

====
